---- MODULE Spec2Model ----
(***************************************************************************)
(* Verification model of the local sensitivity analysis scripts:           *)
(*   parameters.py            Parameters.__init__ (the ParameterSet)       *)
(*   InitialConditions.py     InitialConditions (the initial state y0)     *)
(*   equations_SA.py          ODEsystem_SA (the right-hand side)           *)
(*   mean_relative_change.py  run_model_SA, relative_change (the sweep),   *)
(*                            plot_relative_change (the bar chart)         *)
(*   one_at_a_time_SA.py      perturb_parameters_and_plot (plotting sweep) *)
(*                                                                         *)
(* Three specifications share the variables: Spec runs the sweeps,         *)
(* SpecPlot the bar chart, SpecOde one evaluation of the disease model     *)
(* (construct or perturb a ParameterSet, solve y0, evaluate dydt).         *)
(*                                                                         *)
(* Python floats are modelled by exact rationals <<n, d>> (d > 0, lowest   *)
(* terms).  Masses are counted in micrograms so that the rate constants    *)
(* are of order one; a constant that is not a small rational in the code   *)
(* (it involves log 2 or a molar mass) is given by the rational nearest to *)
(* the value the code's comment quotes.  In the full ParameterSet behind   *)
(* SpecOde the dimensional constants are small rationals in model units:   *)
(* each keeps its sign, the pure numbers of the code (delta_APdp, n, the   *)
(* factors between attributes) keep their values, and an attribute the     *)
(* code computes from others is computed from the same others.             *)
(* math.sqrt is rounded down to a grid, exact on the squares the code's    *)
(* equilibria need; np.exp is a power of three with a clamped exponent.    *)
(* numpy float64 values add the non-finite values inf, -inf and nan,       *)
(* which numpy produces on a division by zero instead of raising.          *)
(*                                                                         *)
(* solve_ivp is external: it is an unknown but deterministic function of   *)
(* the ParameterSet it is given (the initial state, the interval and the   *)
(* tolerances are functions of the ParameterSet or fixed).  Its value is   *)
(* chosen when a ParameterSet is first integrated and remembered in memo.  *)
(* In SpecOde it is the caller of ODEsystem_SA: it may ask about the       *)
(* initial state or about a state of its own.                              *)
(***************************************************************************)
EXTENDS Integers, Sequences, FiniteSets, TLC

(* ------------------------------------------------------------------ *)
(* Bounds of the model                                                 *)
(* ------------------------------------------------------------------ *)

\* Number of non-categorical attributes of p.__dict__ the sweeps visit
\* (the code visits all of them, about eighty).
NumFields == 3

\* Number of sampled ages in a trajectory (t_eval has 1000).
NumSamples == 2

(* ------------------------------------------------------------------ *)
(* Exact rational arithmetic (Python float)                            *)
(* ------------------------------------------------------------------ *)

IAbs(x) == IF x < 0 THEN -x ELSE x

RECURSIVE GCD(_, _)
GCD(a, b) == IF b = 0 THEN a ELSE GCD(b, a % b)

Q(n, d) ==
    LET s == IF d < 0 THEN -1 ELSE 1
        g == GCD(IAbs(n), IAbs(d))
    IN  IF n = 0 THEN <<0, 1>> ELSE <<(s * n) \div g, (s * d) \div g>>

Zero == Q(0, 1)
One == Q(1, 1)
I(n) == Q(n, 1)

\* Products and sums cancel common factors before they multiply, so that the
\* intermediate integers stay as small as the result allows.
RMul(a, b) ==
    LET g1 == GCD(IAbs(a[1]), b[2])
        g2 == GCD(IAbs(b[1]), a[2])
    IN  Q((a[1] \div g1) * (b[1] \div g2), (a[2] \div g2) * (b[2] \div g1))
RDiv(a, b) == RMul(a, Q(b[2], b[1]))
RAdd(a, b) ==
    LET g == GCD(a[2], b[2])
    IN  Q(a[1] * (b[2] \div g) + b[1] * (a[2] \div g), (a[2] \div g) * b[2])
RNeg(a) == <<-a[1], a[2]>>
RSub(a, b) == RAdd(a, RNeg(b))
RAbs(a) == <<IAbs(a[1]), a[2]>>
RLt(a, b) == RSub(a, b)[1] < 0
RLe(a, b) == RSub(a, b)[1] <= 0

\* The largest integer not above a.
Floor(a) == a[1] \div a[2]

\* a * a
Sq(a) == RMul(a, a)

RECURSIVE RSum(_)
RSum(s) == IF s = <<>> THEN Zero ELSE RAdd(Head(s), RSum(Tail(s)))

RECURSIVE RProd(_)
RProd(s) == IF s = <<>> THEN One ELSE RMul(Head(s), RProd(Tail(s)))

(* ------------------------------------------------------------------ *)
(* numpy float64: finite values and inf, -inf, nan                     *)
(* ------------------------------------------------------------------ *)

Num(r) == [k |-> "num", v |-> r]
PInf == [k |-> "pinf", v |-> Zero]
NInf == [k |-> "ninf", v |-> Zero]
NaN == [k |-> "nan", v |-> Zero]

\* a - b on finite operands.
NpSub(a, b) == Num(RSub(a, b))

\* x / r for a finite divisor r: numpy does not raise on r = 0.
NpDiv(x, r) ==
    IF x.k # "num" THEN NaN
    ELSE IF r # Zero THEN Num(RDiv(x.v, r))
    ELSE IF x.v = Zero THEN NaN
    ELSE IF RLt(x.v, Zero) THEN NInf ELSE PInf

NpAbs(x) ==
    IF x.k = "num" THEN Num(RAbs(x.v))
    ELSE IF x.k = "nan" THEN NaN ELSE PInf

NpAdd(x, y) ==
    IF x.k = "nan" \/ y.k = "nan" THEN NaN
    ELSE IF x.k = "num" /\ y.k = "num" THEN Num(RAdd(x.v, y.v))
    ELSE IF x.k = "num" THEN y
    ELSE IF y.k = "num" THEN x
    ELSE IF x.k = y.k THEN x ELSE NaN

\* c * x for a finite c > 0.
NpScale(c, x) == IF x.k = "num" THEN Num(RMul(c, x.v)) ELSE x

\* np.mean([x, y])
NpMean2(x, y) == NpScale(Q(1, 2), NpAdd(x, y))

\* IEEE comparison x < y: false as soon as one operand is nan.
NpLt(x, y) ==
    IF x.k = "nan" \/ y.k = "nan" THEN FALSE
    ELSE IF x.k = "pinf" \/ y.k = "ninf" THEN FALSE
    ELSE IF x.k = "ninf" \/ y.k = "pinf" THEN TRUE
    ELSE RLt(x.v, y.v)

\* -x
NpNeg(x) ==
    IF x.k = "pinf" THEN NInf ELSE IF x.k = "ninf" THEN PInf
    ELSE IF x.k = "nan" THEN NaN ELSE Num(RNeg(x.v))

\* The sign of x: -1, 0 or 1 (x not nan).
NpSign(x) ==
    IF x.k = "pinf" THEN 1 ELSE IF x.k = "ninf" THEN -1
    ELSE IF x.v[1] < 0 THEN -1 ELSE IF x.v[1] > 0 THEN 1 ELSE 0

\* x * y: inf * 0 is nan.
NpMul(x, y) ==
    IF x.k = "nan" \/ y.k = "nan" THEN NaN
    ELSE IF x.k = "num" /\ y.k = "num" THEN Num(RMul(x.v, y.v))
    ELSE IF NpSign(x) * NpSign(y) = 0 THEN NaN
    ELSE IF NpSign(x) * NpSign(y) > 0 THEN PInf ELSE NInf

\* x / y for float64 operands.
NpQuot(x, y) ==
    IF x.k = "nan" \/ y.k = "nan" THEN NaN
    ELSE IF y.k = "num" THEN
        (IF x.k = "num" THEN NpDiv(x, y.v)
         ELSE IF y.v = Zero THEN x
         ELSE IF NpSign(x) * NpSign(y) > 0 THEN PInf ELSE NInf)
    ELSE IF x.k = "num" THEN Num(Zero) ELSE NaN


(* ------------------------------------------------------------------ *)
(* parameters.py: the ParameterSet                                     *)
(* ------------------------------------------------------------------ *)

\* log(2)
Ln2 == Q(7, 10)

\* Parameters.d_ABmo(t): log(2) / halflife, halflife linear in the age t (days).
d_ABmo(t) == RDiv(Ln2, RAdd(RMul(Q(7, 547500), I(t)), Q(11, 600)))

\* The attributes the model keeps, in the order __init__ assigns them, which is
\* the iteration order of p.__dict__.
DictKeys ==
    <<"AP", "S", "lambda_ABi", "d_ABi", "lambda_ABmo", "delta_APm",
      "kappa_ABmoABoo", "delta_APmo", "kappa_FoM", "kappa_ABooM">>

\* A ParameterSet that was never constructed.
NullP == [f \in {DictKeys[i] : i \in 1..Len(DictKeys)} |-> Zero]

\* 0.20, whatever xi is.
TotalMaxActivRateFixed(xi) == Q(1, 5)

\* 0.20 * (1 - xi): the activation rate left unused.
TotalMaxActivRateLeft(xi) == RMul(Q(1, 5), RSub(One, xi))

\* TotalMaxActivRateM = 0.20 * xi
TotalMaxActivRateM(xi) == RMul(Q(1, 5), xi)

\* The attribute values __init__ assigns for (Sex, APOE4_status, xi).
ParametersFields(Sex, APOE4_status, xi) ==
    LET lambda_ABi == Q(7, 10)
        delta_APi == Q(5, 18)
    IN  [AP |-> I(APOE4_status),
         S |-> I(Sex),
         lambda_ABi |-> lambda_ABi,
         d_ABi |-> Q(19, 2),
         lambda_ABmo |-> lambda_ABi,
         delta_APm |-> delta_APi,
         kappa_ABmoABoo |-> Q(4, 11),
         delta_APmo |-> RSub(Q(27, 10), One),
         kappa_FoM |-> RDiv(RMul(TotalMaxActivRateM(xi), I(2)), I(3)),
         kappa_ABooM |-> RDiv(RMul(TotalMaxActivRateM(xi), One), I(3))]

\* The exception __init__ raises, "none" when it returns an object.  The sex
\* branches assign N_0, A_0 and G_0 only for S = 0 and S = 1; for any other S
\* the read of self.G_0 in lambda_InsG = d_G * G_0 raises AttributeError.
\* Neither APOE4_status nor xi is looked at.
ParametersRaises(Sex, APOE4_status, xi) ==
    IF Sex \notin {0, 1} THEN "AttributeError" ELSE "none"

(* ------------------------------------------------------------------ *)
(* InitialConditions.py: the exceptions of InitialConditions(p, AgeStart) *)
(* ------------------------------------------------------------------ *)

AgeStart == 30
AgeEnd == 80

\* y0[0] divides by p.d_ABi (Python floats: ZeroDivisionError).  y0[1] takes
\* math.sqrt(B**2 - 4*A*C) (ValueError on a negative argument) and divides by
\* 2*A.  The later entries read attributes the model leaves at their
\* constructed values, for which they raise nothing.
InitialConditionsRaises(p, age) ==
    LET A == RMul(p.kappa_ABmoABoo, RAdd(One, RMul(p.AP, p.delta_APmo)))
        B == d_ABmo(age * 365)
        C == RNeg(RMul(p.lambda_ABmo, RAdd(One, RMul(p.AP, p.delta_APm))))
        disc == RSub(RMul(B, B), RMul(I(4), RMul(A, C)))
    IN  IF p.d_ABi = Zero THEN "ZeroDivisionError"
        ELSE IF RLt(disc, Zero) THEN "ValueError"
        ELSE IF A = Zero THEN "ZeroDivisionError"
        ELSE "none"

(* ------------------------------------------------------------------ *)
(* The external integrator solve_ivp                                   *)
(* ------------------------------------------------------------------ *)

\* Rows of sol.y: the 19 state variables.
StateIdx == 0..18

\* The biomarker rows a sweep is asked about: plaque, tangles, neurons.
Biomarkers == {3, 6, 8}

TrajIds == {1, 2}

\* Value of row i at the final sampled age in trajectory j.
FinalValue(j, i) == IF j = 1 THEN i % 4 ELSE (i % 3) + 1

\* sol.y of trajectory j: one row per state variable, one column per sample.
Traj(j) ==
    [i \in StateIdx |->
        [k \in 1..NumSamples |-> I(FinalValue(j, i) + (NumSamples - k))]]

\* What one call of solve_ivp can do: return with sol.success false, raise,
\* or return a trajectory.
Failed == [kind |-> "failed", traj |-> 0]
Raised == [kind |-> "raised", traj |-> 0]
Ok(j) == [kind |-> "ok", traj |-> j]

\* What run_model_SA returns: None or sol.
None == [none |-> TRUE, traj |-> 0]
Sol(j) == [none |-> FALSE, traj |-> j]

\* The outcomes solve_ivp can have on ParameterSet q, given what earlier calls
\* returned (mem).  ODEsystem_SA divides by p.Ins(t, p.S), which is None for a
\* sex other than 0 and 1: the integration then raises TypeError.
SolveIvp(q, mem) ==
    IF q \in DOMAIN mem
    THEN IF mem[q].none THEN {Failed, Raised} ELSE {Ok(mem[q].traj)}
    ELSE IF q.S \notin {Zero, One} THEN {Raised}
    ELSE {Failed, Raised} \cup {Ok(j) : j \in TrajIds}

\* run_model_SA without its except clause: an exception of solve_ivp leaves it.
run_model_SA_NoExcept(icExc, outcome) ==
    IF icExc # "none" THEN [exc |-> icExc, ret |-> None]
    ELSE IF outcome.kind = "ok" THEN [exc |-> "none", ret |-> Sol(outcome.traj)]
    ELSE IF outcome.kind = "raised" THEN [exc |-> "RuntimeError", ret |-> None]
    ELSE [exc |-> "none", ret |-> None]

\* run_model_SA(p, ...): InitialConditions is called before the try block, so
\* its exception (icExc) leaves run_model_SA; a failed or raising integration
\* is printed and turned into None.
run_model_SA(icExc, outcome) ==
    IF icExc # "none" THEN [exc |-> icExc, ret |-> None]
    ELSE IF outcome.kind = "ok" THEN [exc |-> "none", ret |-> Sol(outcome.traj)]
    ELSE [exc |-> "none", ret |-> None]

\* age_measure = -1: the last column.
age_measure == NumSamples

\* sol.y[var_int][age_measure]
Output(sol, var_int) == Traj(sol.traj)[var_int][age_measure]

\* The relative change without np.abs.
RelativeChangeSigned(value, original) == NpDiv(NpSub(value, original), original)

\* np.abs((value - original_output) / original_output)
RelativeChangeOf(value, original) == NpAbs(NpDiv(NpSub(value, original), original))

\* 100 * np.mean([increase, decrease])
MeanRelativeChange(inc, dec) == NpScale(I(100), NpMean2(inc, dec))

(* ------------------------------------------------------------------ *)
(* DataFrame.sort_values(by="Relative Change", ascending=False)        *)
(* ------------------------------------------------------------------ *)

Row(name, score) == [Parameter |-> name, RelativeChange |-> score]

\* The 'Parameter' column of a table.
Names(rows) == {rows[i].Parameter : i \in 1..Len(rows)}

\* Insert row r into the descending sequence s, after the rows that are not
\* smaller than it (the order of rows with equal scores is left open by the
\* library's default quicksort; no property below depends on it).
RECURSIVE InsertDesc(_, _)
InsertDesc(r, s) ==
    IF s = <<>> THEN <<r>>
    ELSE IF NpLt(Head(s).RelativeChange, r.RelativeChange)
         THEN <<r>> \o s
         ELSE <<Head(s)>> \o InsertDesc(r, Tail(s))

RECURSIVE SortDesc(_)
SortDesc(s) == IF s = <<>> THEN <<>> ELSE InsertDesc(Head(s), SortDesc(Tail(s)))

RECURSIVE Reverse(_)
Reverse(s) == IF s = <<>> THEN <<>> ELSE Append(Reverse(Tail(s)), Head(s))

IsNaNRow(r) == r.RelativeChange.k = "nan"
NotNaNRow(r) == ~IsNaNRow(r)

\* sort_values without ascending=False: ascending, rows with a nan score last.
sort_values_Ascending(rows) ==
    Reverse(SortDesc(SelectSeq(rows, NotNaNRow))) \o SelectSeq(rows, IsNaNRow)

\* Descending by score, rows with a nan score last (na_position="last").
sort_values(rows) ==
    SortDesc(SelectSeq(rows, NotNaNRow)) \o SelectSeq(rows, IsNaNRow)

(* ------------------------------------------------------------------ *)
(* parameters.py: every attribute of the ParameterSet                  *)
(* ------------------------------------------------------------------ *)

\* Parameters.Ins(t, S): brain insulin, linear and decreasing in the age t
\* (days), in units of its value at birth for a woman.  The code's lines are
\* 0.1 * (-4.151e-15 * t + 3.460e-10) and 0.1 * (-4.257e-15 * t + 3.763e-10):
\* they reach zero near 83000 and 88000 days, and 3.763 / 3.460 is about 12/11.
Ins(t, S) ==
    IF S = Zero THEN RSub(One, Q(t, 83000))
    ELSE RMul(Q(12, 11), RSub(One, Q(t, 88000)))

\* The total microglia of InitialConditions and of K_Manti (3.811e-2 and
\* 3.193e-2 in the code), in model units.
M_0(S) == IF S = Zero THEN I(4) ELSE I(3)

\* All the attributes __init__ assigns for (Sex, APOE4_status, xi), Sex in
\* {0, 1}.  Pure numbers (fold changes, the Hill exponent, the fractions 1/13,
\* 1/100, 1/10, 2/3, 1/3, 1/4) and the relations between attributes are the
\* code's.  A constant that carries a unit is a small rational in model units,
\* of the sign it has in the code; the attributes ParametersFields keeps have
\* the values it gives them.
Parameters(Sex, APOE4_status, xi) ==
    LET f == ParametersFields(Sex, APOE4_status, xi)
        S == I(Sex)
        rho_cerveau == Q(103, 100)
        A_0 == IF Sex = 0 THEN Q(1, 10) ELSE Q(3, 25)
        K_ABpo == One
        d_G == Q(2, 5)
        G_0 == IF Sex = 0 THEN RMul(Q(400, 103), rho_cerveau)
                          ELSE RMul(Q(100, 103), rho_cerveau)
        d_tau == Q(1, 2)
        kappa_TaA == One
        K_TaAct == Q(19, 20)
        K_TbM == Q(19, 20)
        K_TaM == RMul(K_TaAct, I(2))
        kappa_MhatantiTb == One
        kappa_MhatantiI10 == One
        kappa_MhatproTa == One
        kappa_MhatproP == One
    IN  [AP |-> f.AP,
         S |-> S,
         rho_cerveau |-> rho_cerveau,
         N_0 |-> IF Sex = 0 THEN Q(45, 100) ELSE Q(42, 100),
         A_0 |-> A_0,
         lambda_ABi |-> f.lambda_ABi,
         delta_APi |-> f.delta_APm,
         d_ABi |-> f.d_ABi,
         lambda_ABmo |-> f.lambda_ABmo,
         delta_APm |-> f.delta_APm,
         lambda_AABmo |-> RMul(Q(1, 13), f.lambda_ABmo),
         kappa_ABmoABoo |-> f.kappa_ABmoABoo,
         delta_APmo |-> f.delta_APmo,
         kappa_ABooABpo |-> Q(1, 2),
         d_ABoo |-> Q(1, 100),
         d_hatMantiABpo |-> Q(5, 2),
         d_MantiABpo |-> I(10),
         delta_APdp |-> RSub(Q(5, 20), One),
         K_ABpo |-> K_ABpo,
         Ins_0 |-> Ins(365 * 30, S),
         d_G |-> d_G,
         G_0 |-> G_0,
         lambda_InsG |-> RMul(d_G, G_0),
         lambda_tau |-> Q(1, 4),
         lambda_Gtau |-> Q(3, 4),
         kappa_tauFi |-> Q(1, 2),
         d_tau |-> d_tau,
         d_Fi |-> RMul(Q(1, 100), d_tau),
         kappa_MFo |-> Q(4, 10),
         K_Manti |-> RMul(Q(1, 4), M_0(S)),
         d_Fo |-> RMul(Q(1, 10), d_tau),
         d_FiN |-> Q(1, 100),
         K_Fi |-> I(120),
         n |-> I(15),
         d_TaN |-> Q(1, 50),
         K_Ta |-> Q(9, 20),
         K_I10 |-> Q(1, 20),
         A_max |-> A_0,
         kappa_TaA |-> kappa_TaA,
         kappa_ABpoA |-> RDiv(RMul(kappa_TaA, K_TaAct), RMul(I(2), K_ABpo)),
         d_A |-> Q(4, 10),
         kappa_FoM |-> f.kappa_FoM,
         K_Fo |-> Q(19, 20),
         kappa_ABooM |-> f.kappa_ABooM,
         K_ABooM |-> One,
         d_Mpro |-> Q(1, 2),
         d_Manti |-> Q(1, 2),
         beta |-> One,
         K_TaAct |-> K_TaAct,
         K_I10Act |-> Q(19, 20),
         kappa_TbMpro |-> Q(48, 10),
         K_TbM |-> K_TbM,
         kappa_TaManti |-> Q(48, 10),
         K_TaM |-> K_TaM,
         kappa_PMhat |-> Q(1, 3),
         K_P |-> Q(19, 20),
         Mhatmax |-> I(2),
         kappa_TbMhatpro |-> RDiv(One, Q(10, 24)),
         K_TbMhat |-> K_TbM,
         kappa_TaMhatanti |-> RDiv(One, Q(10, 24)),
         K_TaMhat |-> K_TaM,
         d_Mhatpro |-> Q(1, 2),
         d_Mhatanti |-> Q(1, 2),
         kappa_MhatantiTb |-> kappa_MhatantiTb,
         kappa_MantiTb |-> kappa_MhatantiTb,
         d_Tb |-> I(2),
         kappa_MhatantiI10 |-> kappa_MhatantiI10,
         kappa_MantiI10 |-> kappa_MhatantiI10,
         d_I10 |-> I(2),
         kappa_MhatproTa |-> kappa_MhatproTa,
         kappa_MproTa |-> kappa_MhatproTa,
         d_Ta |-> I(2),
         kappa_MhatproP |-> kappa_MhatproP,
         kappa_MproP |-> kappa_MhatproP,
         kappa_AP |-> RMul(Q(1, 10), kappa_MhatproP),
         d_P |-> I(2)]

(* ------------------------------------------------------------------ *)
(* InitialConditions.py: the initial state y0                          *)
(* ------------------------------------------------------------------ *)

\* Resolution of math.sqrt in the model.
SqrtGrid == 10

\* B + k / SqrtGrid is not above the square root of x.
SqrtOk(k, B, x) ==
    LET s == RAdd(B, Q(k, SqrtGrid))
    IN  RLe(s, Zero) \/ RLe(Sq(s), x)

RECURSIVE SqrtSearch(_, _, _, _)
SqrtSearch(lo, hi, B, x) ==
    IF hi - lo <= 1 THEN lo
    ELSE LET mid == (lo + hi) \div 2
         IN  IF SqrtOk(mid, B, x) THEN SqrtSearch(mid, hi, B, x)
             ELSE SqrtSearch(lo, mid, B, x)

\* math.sqrt(x) for x >= 0, as it is used in -B + math.sqrt(B**2 - 4*A*C).  A
\* float square root is rounded; the model rounds it down to the grid of
\* spacing 1 / SqrtGrid through B, so that, as for floats, the square root of
\* B**2 is B and the square root is monotone.
MathSqrt(x, B) ==
    LET r == Floor(RMul(RAbs(B), I(SqrtGrid))) + 1
    IN  RAdd(B, Q(SqrtSearch(-r, SqrtGrid * (Floor(x) + 1) + r, B, x), SqrtGrid))

\* B**2 - 4*A*C
Discriminant(A, B, C) == RSub(Sq(B), RProd(<<I(4), A, C>>))

\* (-B - math.sqrt(B**2 - 4*A*C)) / (2*A): the root the code does not take.
OtherRoot(A, B, C) ==
    RDiv(RSub(RNeg(B), MathSqrt(Discriminant(A, B, C), B)), RMul(I(2), A))

\* -B / (2*A): the root without its square root.
RootWithoutSqrt(A, B, C) == RDiv(RNeg(B), RMul(I(2), A))

\* (-B + math.sqrt(B**2 - 4*A*C)) / (2*A)
Root(A, B, C) ==
    RDiv(RAdd(RNeg(B), MathSqrt(Discriminant(A, B, C), B)), RMul(I(2), A))

\* 1 + p.AP * delta
ApoeFold(p, delta) == RAdd(One, RMul(p.AP, delta))

\* The three quadratics of InitialConditions: <<A, B, C>> for y0[1], for y0[2]
\* given y0[1], and for y0[5].
QuadABmo(p, age) ==
    <<RMul(p.kappa_ABmoABoo, ApoeFold(p, p.delta_APmo)),
      d_ABmo(age * 365),
      RNeg(RMul(p.lambda_ABmo, ApoeFold(p, p.delta_APm)))>>
QuadABoo(p, y1) ==
    <<p.kappa_ABooABpo,
      p.d_ABoo,
      RNeg(RProd(<<p.kappa_ABmoABoo, ApoeFold(p, p.delta_APmo), Sq(y1)>>))>>
QuadTau(p) ==
    <<p.kappa_tauFi, p.d_tau, RNeg(RAdd(p.lambda_tau, p.lambda_Gtau))>>

\* The exception a quadratic raises: math.sqrt raises ValueError on a negative
\* argument, the division of Python floats ZeroDivisionError.
QuadRaises(q) ==
    IF RLt(Discriminant(q[1], q[2], q[3]), Zero) THEN "ValueError"
    ELSE IF q[1] = Zero THEN "ZeroDivisionError"
    ELSE "none"

\* The exception InitialConditions(p, age) raises, "none" when it returns y0.
InitialConditionsError(p, age) ==
    LET q1 == QuadABmo(p, age)
    IN  IF p.d_ABi = Zero THEN "ZeroDivisionError"
        ELSE IF QuadRaises(q1) # "none" THEN QuadRaises(q1)
        ELSE IF QuadRaises(QuadABoo(p, Root(q1[1], q1[2], q1[3]))) # "none"
            THEN QuadRaises(QuadABoo(p, Root(q1[1], q1[2], q1[3])))
        ELSE QuadRaises(QuadTau(p))

\* Psi = p.kappa_ABooABpo * y0[2]**2
PlaquePsi(p, y2) == RMul(p.kappa_ABooABpo, Sq(y2))

\* D = (p.d_MantiABpo * y0[12] + p.d_hatMantiABpo * y0[14]) * (1 + p.AP * p.delta_APdp)
PlaqueD(p, y12, y14) ==
    RMul(RAdd(RMul(p.d_MantiABpo, y12), RMul(p.d_hatMantiABpo, y14)),
         ApoeFold(p, p.delta_APdp))

\* (Psi * p.K_ABpo) / D: the plaque level if its clearance did not saturate.
PlaqueUnsaturated(p, Psi, D) == NpDiv(Num(RMul(Psi, p.K_ABpo)), D)

\* y0[3] = (Psi * p.K_ABpo) / (D - Psi), a division of float64 values
Plaque(p, Psi, D) == NpDiv(Num(RMul(Psi, p.K_ABpo)), RSub(D, Psi))

\* The vector InitialConditions(p, age) returns when it raises nothing.  y0 is
\* np.zeros(19): its entries are float64, and a division whose numerator is
\* read from y0 gives inf or nan on a zero divisor.
InitialConditions(p, age) ==
    LET q1 == QuadABmo(p, age)
        y1 == Root(q1[1], q1[2], q1[3])
        q2 == QuadABoo(p, y1)
        y2 == Root(q2[1], q2[2], q2[3])
        q5 == QuadTau(p)
        y5 == Root(q5[1], q5[2], q5[3])
        y7 == Q(1, 20)
        y9 == Zero
        y11 == Q(1, 10)
        y12 == Q(1, 10)
        y13 == Zero
        y14 == Zero
    IN  [i \in StateIdx |->
           CASE i = 0 -> Num(RDiv(RMul(p.lambda_ABi, ApoeFold(p, p.delta_APi)), p.d_ABi))
             [] i = 1 -> Num(y1)
             [] i = 2 -> Num(y2)
             [] i = 3 -> Plaque(p, PlaquePsi(p, y2), PlaqueD(p, y12, y14))
             [] i = 4 -> Num(p.G_0)
             [] i = 5 -> Num(y5)
             [] i = 6 -> NpDiv(Num(RMul(p.kappa_tauFi, Sq(y5))), p.d_Fi)
             [] i = 7 -> Num(y7)
             [] i = 8 -> Num(p.N_0)
             [] i = 9 -> Num(y9)
             [] i = 10 -> Num(RSub(M_0(p.S), RAdd(y11, y12)))
             [] i = 11 -> Num(y11)
             [] i = 12 -> Num(y12)
             [] i = 13 -> Num(y13)
             [] i = 14 -> Num(y14)
             [] i = 15 -> NpDiv(Num(RAdd(RMul(p.kappa_MantiTb, y12),
                                         RMul(p.kappa_MhatantiTb, y14))), p.d_Tb)
             [] i = 16 -> NpDiv(Num(RAdd(RMul(p.kappa_MantiI10, y12),
                                         RMul(p.kappa_MhatantiI10, y14))), p.d_I10)
             [] i = 17 -> NpDiv(Num(RAdd(RMul(p.kappa_MproTa, y11),
                                         RMul(p.kappa_MhatproTa, y13))), p.d_Ta)
             [] i = 18 -> NpDiv(Num(RSum(<<RMul(p.kappa_MproP, y11),
                                           RMul(p.kappa_MhatproP, y13),
                                           RMul(p.kappa_AP, y9)>>)), p.d_P)]

(* ------------------------------------------------------------------ *)
(* equations_SA.py: ODEsystem_SA                                       *)
(* ------------------------------------------------------------------ *)

RECURSIVE NpSum(_)
NpSum(s) == IF s = <<>> THEN Num(Zero) ELSE NpAdd(Head(s), NpSum(Tail(s)))

RECURSIVE NpProd(_)
NpProd(s) == IF s = <<>> THEN Num(One) ELSE NpMul(Head(s), NpProd(Tail(s)))

\* Largest exponent the model's np.exp tells apart.
ExpRange == 2

RECURSIVE IPow(_, _)
IPow(b, k) == IF k = 0 THEN 1 ELSE b * IPow(b, k - 1)

\* np.exp(x), to the power of three below it and within 3 ** (+-ExpRange):
\* positive and non-decreasing, which is what the sigmoid of the neuron loss
\* needs of it.
NpExp(x) ==
    LET f == Floor(x.v)
        k == IF f > ExpRange THEN ExpRange ELSE IF f < -ExpRange THEN -ExpRange ELSE f
    IN  IF x.k = "nan" THEN NaN
        ELSE IF x.k = "pinf" THEN PInf
        ELSE IF x.k = "ninf" THEN Num(Zero)
        ELSE IF k >= 0 THEN Num(I(IPow(3, k))) ELSE Num(Q(1, IPow(3, -k)))

\* x / (x + K)
Saturation(x, K) == NpQuot(x, NpAdd(x, Num(K)))

\* dydt[8], the first entry the function assigns (living neurons).
NeuronDerivative(y, p) ==
    LET sigmoid ==
            NpQuot(Num(One),
                   NpAdd(Num(One),
                         NpExp(NpQuot(NpMul(Num(RNeg(p.n)), NpAdd(y[6], Num(RNeg(p.K_Fi)))),
                                      Num(p.K_Fi)))))
    IN  NpAdd(NpProd(<<Num(RNeg(p.d_FiN)), sigmoid, y[8]>>),
              NpNeg(NpProd(<<Num(p.d_TaN), Saturation(y[17], p.K_Ta),
                             NpQuot(Num(One), NpAdd(Num(One), NpQuot(y[16], Num(p.K_I10)))),
                             y[8]>>)))

\* dydt is np.zeros(19): an entry read before it is assigned is 0.
Dydt8Unassigned(y, p) == Num(Zero)

\* The value of dydt[8] the later lines read.
Dydt8(y, p) == NeuronDerivative(y, p)

\* (y[i] / y[8]) * abs(dydt[8])
Loss(i, y, p) == NpMul(NpQuot(y[i], y[8]), NpAbs(Dydt8(y, p)))

\* What an equation adds to and subtracts from its variable apart from the
\* loss of neurons: the right-hand side without the (y[i] / y[8]) * abs(dydt[8])
\* term.
Kinetics(i, t, y, p) ==
    LET fold(delta) == Num(ApoeFold(p, delta))
        N == NpQuot(y[8], Num(p.N_0))
        aggr1 == NpProd(<<Num(p.kappa_ABmoABoo), fold(p.delta_APmo), NpMul(y[1], y[1])>>)
        aggr2 == NpMul(Num(p.kappa_ABooABpo), NpMul(y[2], y[2]))
        fibr == NpProd(<<Num(p.kappa_tauFi), NpMul(y[5], y[5]), N>>)
    IN  CASE i = 0 ->
               NpAdd(NpProd(<<Num(p.lambda_ABi), fold(p.delta_APi), N>>),
                     NpNeg(NpMul(Num(p.d_ABi), y[0])))
          [] i = 1 ->
               NpSum(<<NpProd(<<Num(p.lambda_ABmo), fold(p.delta_APm), N>>),
                       NpMul(Num(p.lambda_AABmo), NpQuot(y[9], Num(p.A_0))),
                       NpNeg(aggr1),
                       NpNeg(NpMul(Num(d_ABmo(t)), y[1]))>>)
          [] i = 2 ->
               NpSum(<<aggr1, NpNeg(aggr2), NpNeg(NpMul(Num(p.d_ABoo), y[2]))>>)
          [] i = 3 ->
               NpAdd(aggr2,
                     NpNeg(NpProd(<<NpAdd(NpMul(Num(p.d_MantiABpo), y[12]),
                                          NpMul(Num(p.d_hatMantiABpo), y[14])),
                                    fold(p.delta_APdp),
                                    Saturation(y[3], p.K_ABpo)>>)))
          [] i = 4 ->
               NpAdd(NpProd(<<Num(p.lambda_InsG),
                              NpQuot(Num(p.Ins_0), Num(Ins(t, p.S))), N>>),
                     NpNeg(NpMul(Num(p.d_G), y[4])))
          [] i = 5 ->
               NpSum(<<NpMul(Num(p.lambda_tau), N),
                       NpMul(Num(p.lambda_Gtau), NpQuot(y[4], Num(p.G_0))),
                       NpNeg(fibr),
                       NpNeg(NpMul(Num(p.d_tau), y[5]))>>)
          [] i = 6 -> NpAdd(fibr, NpNeg(NpMul(Num(p.d_Fi), y[6])))
          [] i = 7 ->
               NpAdd(NpNeg(NpProd(<<Num(p.kappa_MFo), Saturation(y[12], p.K_Manti), y[7]>>)),
                     NpNeg(NpMul(Num(p.d_Fo), y[7])))

\* M_activ
M_activ(y, p) ==
    NpAdd(NpProd(<<Num(p.kappa_FoM), Saturation(y[7], p.K_Fo), y[10]>>),
          NpProd(<<Num(p.kappa_ABooM), Saturation(y[2], p.K_ABooM), y[10]>>))

epsilon_Ta(y, p) == Saturation(y[17], p.K_TaAct)
epsilon_I10(y, p) == Saturation(y[16], p.K_I10Act)

\* beta * epsilon_Ta, not divided by beta * epsilon_Ta + epsilon_I10.
ProFractionUnnormalised(y, p) == NpMul(Num(p.beta), epsilon_Ta(y, p))

\* The fractions of the activated cells that turn pro- and anti-inflammatory.
ProFraction(y, p) ==
    NpQuot(NpMul(Num(p.beta), epsilon_Ta(y, p)),
           NpAdd(NpMul(Num(p.beta), epsilon_Ta(y, p)), epsilon_I10(y, p)))
AntiFraction(y, p) ==
    NpQuot(epsilon_I10(y, p),
           NpAdd(NpMul(Num(p.beta), epsilon_Ta(y, p)), epsilon_I10(y, p)))

\* The vector ODEsystem_SA(t, y, p) returns (InsVar is True).  t is a float64
\* in every call the integrator makes after its first, so that the division
\* by p.Ins(t, p.S) raises nothing either.
ODEsystem_SA(t, y, p) ==
    LET toAnti == NpProd(<<Num(p.kappa_TbMpro), Saturation(y[15], p.K_TbM), y[11]>>)
        toPro == NpProd(<<Num(p.kappa_TaManti), Saturation(y[17], p.K_TaM), y[12]>>)
        recruit == NpProd(<<Num(p.kappa_PMhat), Saturation(y[18], p.K_P),
                            NpAdd(Num(p.Mhatmax), NpNeg(NpAdd(y[13], y[14])))>>)
        hatToAnti == NpProd(<<Num(p.kappa_TbMhatpro), Saturation(y[15], p.K_TbMhat), y[13]>>)
        hatToPro == NpProd(<<Num(p.kappa_TaMhatanti), Saturation(y[17], p.K_TaMhat), y[14]>>)
    IN  [i \in StateIdx |->
           CASE i = 8 -> NeuronDerivative(y, p)
             [] i \in {0, 4, 5, 6} -> NpAdd(Kinetics(i, t, y, p), NpNeg(Loss(i, y, p)))
             [] i = 1 -> NpAdd(Loss(0, y, p), Kinetics(1, t, y, p))
             [] i \in {2, 3} -> Kinetics(i, t, y, p)
             [] i = 7 -> NpAdd(Loss(6, y, p), Kinetics(7, t, y, p))
             [] i = 9 ->
                  NpAdd(NpMul(NpAdd(NpMul(Num(p.kappa_ABpoA), y[3]),
                                    NpMul(Num(p.kappa_TaA), y[17])),
                              NpAdd(Num(p.A_max), NpNeg(y[9]))),
                        NpNeg(NpMul(Num(p.d_A), y[9])))
             [] i = 10 ->
                  NpSum(<<NpMul(Num(p.d_Mpro), y[11]), NpMul(Num(p.d_Manti), y[12]),
                          NpNeg(M_activ(y, p))>>)
             [] i = 11 ->
                  NpSum(<<NpMul(ProFraction(y, p), M_activ(y, p)), NpNeg(toAnti), toPro,
                          NpNeg(NpMul(Num(p.d_Mpro), y[11]))>>)
             [] i = 12 ->
                  NpSum(<<NpMul(AntiFraction(y, p), M_activ(y, p)), toAnti, NpNeg(toPro),
                          NpNeg(NpMul(Num(p.d_Manti), y[12]))>>)
             [] i = 13 ->
                  NpSum(<<NpMul(recruit, ProFraction(y, p)), NpNeg(hatToAnti), hatToPro,
                          NpNeg(NpMul(Num(p.d_Mhatpro), y[13]))>>)
             [] i = 14 ->
                  NpSum(<<NpMul(recruit, AntiFraction(y, p)), hatToAnti, NpNeg(hatToPro),
                          NpNeg(NpMul(Num(p.d_Mhatanti), y[14]))>>)
             [] i = 15 ->
                  NpSum(<<NpMul(Num(p.kappa_MantiTb), y[12]),
                          NpMul(Num(p.kappa_MhatantiTb), y[14]),
                          NpNeg(NpMul(Num(p.d_Tb), y[15]))>>)
             [] i = 16 ->
                  NpSum(<<NpMul(Num(p.kappa_MantiI10), y[12]),
                          NpMul(Num(p.kappa_MhatantiI10), y[14]),
                          NpNeg(NpMul(Num(p.d_I10), y[16]))>>)
             [] i = 17 ->
                  NpSum(<<NpMul(Num(p.kappa_MproTa), y[11]),
                          NpMul(Num(p.kappa_MhatproTa), y[13]),
                          NpNeg(NpMul(Num(p.d_Ta), y[17]))>>)
             [] i = 18 ->
                  NpSum(<<NpMul(Num(p.kappa_MproP), y[11]),
                          NpMul(Num(p.kappa_MhatproP), y[13]),
                          NpMul(Num(p.kappa_AP), y[9]),
                          NpNeg(NpMul(Num(p.d_P), y[18]))>>)]

(* ------------------------------------------------------------------ *)
(* State                                                               *)
(* ------------------------------------------------------------------ *)

VARIABLES
    pc,                        \* position in the running function
    call,                      \* the entry point that was called
    args,                      \* its arguments
    p0,                        \* the object bound to p before the loop
    p,                         \* the object currently bound to p
    shared,                    \* p and p0 are one and the same object
    idx,                       \* position of the for loop in p.__dict__
    fIdx,                      \* position in [1] + perturbation_factors
    original_value,
    original_output,
    relative_change_increase,
    relative_changes,          \* the list of rows appended so far
    result,                    \* what the call returned or raised
    memo,                      \* ParameterSet -> what run_model_SA returned
    hist,                      \* history of the call (runs made, keys set)
    plot,                      \* a call of plot_relative_change: its data and
                               \* what it displayed
    ode                        \* one evaluation of the disease model: the
                               \* ParameterSet, the state and its derivative

\* The variables of the sweeps.
sweepVars ==
    <<pc, call, args, p0, p, shared, idx, fIdx, original_value, original_output,
      relative_change_increase, relative_changes, result, memo, hist>>

vars == <<sweepVars, plot, ode>>

\* The scenarios of the scripts' cases lists.
Cases == {<<0, 0>>, <<0, 1>>, <<1, 0>>, <<1, 1>>}

\* Argument values the entry points are called with.  The constructor and
\* relative_change check none of them.
SexInputs == {0, 1, 2}
ApoeInputs == {0, 1, 2}
XiInputs == {Zero, Q(1, 2), One, I(2)}
FactorInputs == {Q(11, 10), One, Zero, I(-20)}

\* [1] + perturbation_factors of one_at_a_time_SA.py
OATFactors == <<One, Q(21, 20), Q(11, 10), Q(19, 20)>>

\* The keys of p.__dict__ a sweep iterates over.
Keys == SubSeq(DictKeys, 1, 2 + NumFields)
KeySet == {Keys[i] : i \in 1..Len(Keys)}
Categorical == {"S", "AP"}

NoArgs ==
    [Sex |-> 0, APOE4_status |-> 0, xi |-> One, perturbation_factor |-> One,
     var_int |-> 0]

NoResult == [kind |-> "none", exc |-> "none", rows |-> <<>>]
Raise(e) == [kind |-> "raised", exc |-> e, rows |-> <<>>]
Table(rows) == [kind |-> "table", exc |-> "none", rows |-> rows]
Object == [kind |-> "object", exc |-> "none", rows |-> <<>>]
Plotted == [kind |-> "plotted", exc |-> "none", rows |-> <<>>]

\* What happened in the call, recorded from what InitialConditions and
\* solve_ivp did (not from what the code made of it).  A trajectory id of 0
\* stands for "no trajectory": not run, or run without success.
NoHist ==
    [baseline |-> "none",      \* baseline run: "ok", "failed" (integration) or
                               \* "raised" (InitialConditions)
     base |-> 0,               \* trajectory of the baseline run
     runs |-> 0,               \* perturbed integrations started
     visited |-> {},           \* keys whose up run was called
     up |-> [k \in KeySet |-> 0],    \* trajectory of each key's up run
     down |-> [k \in KeySet |-> 0],  \* trajectory of each key's down run
     ic |-> "none",            \* exception of InitialConditions in a perturbed run
     set |-> {}]               \* keys given to setattr

\* The history after solve_ivp was (or, InitialConditions raising, was not)
\* called for the run `dir` of key attr.
Started(h, attr, dir, ic, outcome) ==
    [h EXCEPT !.visited = @ \cup {attr},
              !.runs = IF ic = "none" THEN @ + 1 ELSE @,
              !.ic = IF ic = "none" THEN @ ELSE ic,
              !.up = IF dir = "up" /\ ic = "none"
                     THEN [@ EXCEPT ![attr] = outcome.traj] ELSE @,
              !.down = IF dir = "down" /\ ic = "none"
                       THEN [@ EXCEPT ![attr] = outcome.traj] ELSE @]

UpOK == {k \in KeySet : hist.up[k] # 0}
BothOK == {k \in KeySet : hist.up[k] # 0 /\ hist.down[k] # 0}

\* No call of plot_relative_change was made.
NoPlot == [pc |-> "idle", biomarker |-> "none", data |-> <<>>, shown |-> NoResult]

\* No evaluation of the disease model is under way.
NoOde == [pc |-> "idle", p |-> NullP, age |-> 0, t |-> 0, y |-> <<>>, dydt |-> <<>>]

Init ==
    /\ pc = "idle"
    /\ call = "none"
    /\ args = NoArgs
    /\ p0 = NullP
    /\ p = NullP
    /\ shared = FALSE
    /\ idx = 0
    /\ fIdx = 0
    /\ original_value = Zero
    /\ original_output = Zero
    /\ relative_change_increase = NaN
    /\ relative_changes = <<>>
    /\ result = NoResult
    /\ memo = <<>>
    /\ hist = NoHist
    /\ plot = NoPlot
    /\ ode = NoOde

\* A constructor that hands out the object it made last.
FreshCached == p

\* param.Parameters(Sex, APOE4_status) of the running call (xi defaults to 1).
Fresh == ParametersFields(args.Sex, args.APOE4_status, args.xi)

Remember(q, ret) == IF q \in DOMAIN memo THEN memo ELSE memo @@ (q :> ret)

(* ------------------------------------------------------------------ *)
(* parameters.py: a direct construction                                *)
(* ------------------------------------------------------------------ *)

CallParameters ==
    /\ pc = "idle"
    /\ \E Sex \in SexInputs, APOE4_status \in ApoeInputs, xi \in XiInputs :
        /\ call' = "Parameters"
        /\ args' = [NoArgs EXCEPT !.Sex = Sex, !.APOE4_status = APOE4_status,
                                  !.xi = xi]
        /\ IF ParametersRaises(Sex, APOE4_status, xi) # "none"
           THEN /\ result' = Raise(ParametersRaises(Sex, APOE4_status, xi))
                /\ p0' = NullP
           ELSE /\ result' = Object
                /\ p0' = ParametersFields(Sex, APOE4_status, xi)
    /\ pc' = "done"
    /\ UNCHANGED <<p, shared, idx, fIdx, original_value, original_output,
                   relative_change_increase, relative_changes, memo, hist>>
    /\ UNCHANGED <<plot, ode>>

(* ------------------------------------------------------------------ *)
(* mean_relative_change.py: relative_change                            *)
(* ------------------------------------------------------------------ *)

\* if attr in ["S", "AP"]: continue
SkipKey(attr) == attr \in {"S", "AP"}

\* The loop body without its first statement: the object bound to p is kept.
LoopObjectInPlace(current, isShared) == [obj |-> current, shared |-> isShared]

\* The object the loop body perturbs: p is rebound to a new Parameters object,
\* which is no longer the object bound before the loop.
LoopObject(current, isShared) == [obj |-> Fresh, shared |-> FALSE]

\* The object bound before the loop after setattr gave the object bound to p
\* the value q: it changes with it when they are one object.
Baseline(q, isShared) == IF isShared THEN q ELSE p0

\* The perturbation as an offset: original_value + perturbation_factor.
IncreasedByOffset(value, factor) == RAdd(value, factor)

\* p_increased = original_value * perturbation_factor
Increased(value, factor) == RMul(value, factor)

\* p_decreased = original_value / perturbation_factor (factor # 0)
Decreased(value, factor) == RDiv(value, factor)

\* setattr(q, attr, value)
SetAttr(q, attr, value) == [q EXCEPT ![attr] = value]

\* p = param.Parameters(Sex, APOE4_status); AgeStart, AgeEnd, t_eval
CallRelativeChange ==
    /\ pc = "idle"
    /\ \E Sex \in SexInputs, APOE4_status \in {0, 1},
          factor \in FactorInputs, var_int \in Biomarkers :
        /\ call' = "relative_change"
        /\ args' = [NoArgs EXCEPT !.Sex = Sex, !.APOE4_status = APOE4_status,
                                  !.perturbation_factor = factor,
                                  !.var_int = var_int]
        /\ IF ParametersRaises(Sex, APOE4_status, One) # "none"
           THEN /\ result' = Raise(ParametersRaises(Sex, APOE4_status, One))
                /\ p0' = NullP
                /\ pc' = "done"
           ELSE /\ result' = NoResult
                /\ p0' = ParametersFields(Sex, APOE4_status, One)
                /\ pc' = "baseline"
        /\ p' = p0'
    /\ shared' = TRUE
    /\ UNCHANGED <<idx, fIdx, original_value, original_output,
                   relative_change_increase, relative_changes, memo, hist>>
    /\ UNCHANGED <<plot, ode>>

\* sol_original = run_model_SA(p, ...); if it is None return pd.DataFrame();
\* original_output = sol_original.y[var_int][age_measure]; relative_changes = []
RunBaseline ==
    /\ pc = "baseline"
    /\ \E outcome \in SolveIvp(p, memo) :
        LET ic == InitialConditionsRaises(p, AgeStart)
            r == run_model_SA(ic, outcome)
        IN  /\ hist' = [hist EXCEPT
                    !.baseline = IF ic # "none" THEN "raised"
                                 ELSE IF outcome.kind = "ok" THEN "ok" ELSE "failed",
                    !.base = IF ic = "none" THEN outcome.traj ELSE 0]
            /\ IF r.exc # "none"
               THEN /\ result' = Raise(r.exc)
                    /\ pc' = "done"
                    /\ UNCHANGED <<memo, original_output, idx>>
               ELSE IF r.ret.none
               THEN /\ result' = Table(<<>>)
                    /\ memo' = Remember(p, r.ret)
                    /\ pc' = "done"
                    /\ UNCHANGED <<original_output, idx>>
               ELSE /\ original_output' = Output(r.ret, args.var_int)
                    /\ memo' = Remember(p, r.ret)
                    /\ idx' = 1
                    /\ pc' = "loop"
                    /\ UNCHANGED result
    /\ UNCHANGED <<call, args, p0, p, shared, fIdx, original_value,
                   relative_change_increase, relative_changes>>
    /\ UNCHANGED <<plot, ode>>

\* for attr in p.__dict__: the keys are exhausted
LoopExit ==
    /\ pc = "loop"
    /\ idx > Len(Keys)
    /\ pc' = "sort"
    /\ UNCHANGED <<call, args, p0, p, shared, idx, fIdx, original_value, original_output,
                   relative_change_increase, relative_changes, result, memo, hist>>
    /\ UNCHANGED <<plot, ode>>

\* if attr in ["S", "AP"]: continue
LoopSkip ==
    /\ pc = "loop"
    /\ idx <= Len(Keys)
    /\ SkipKey(Keys[idx])
    /\ idx' = idx + 1
    /\ UNCHANGED <<pc, call, args, p0, p, shared, fIdx, original_value, original_output,
                   relative_change_increase, relative_changes, result, memo, hist>>
    /\ UNCHANGED <<plot, ode>>

\* p = param.Parameters(...); original_value = getattr(p, attr);
\* setattr(p, attr, original_value * perturbation_factor)
PerturbUp ==
    /\ pc = "loop"
    /\ idx <= Len(Keys)
    /\ ~SkipKey(Keys[idx])
    /\ LET attr == Keys[idx]
           q == LoopObject(p, shared)
       IN  /\ original_value' = q.obj[attr]
           /\ p' = SetAttr(q.obj, attr,
                          Increased(q.obj[attr], args.perturbation_factor))
           /\ shared' = q.shared
           /\ p0' = Baseline(p', q.shared)
           /\ hist' = [hist EXCEPT !.set = @ \cup {attr}]
    /\ pc' = "runUp"
    /\ UNCHANGED <<call, args, idx, fIdx, original_output,
                   relative_change_increase, relative_changes, result, memo>>
    /\ UNCHANGED <<plot, ode>>

\* sol_increased = run_model_SA(p, ...); if it is None: continue;
\* relative_change_increase = ...; p_decreased = original_value / factor;
\* setattr(p, attr, p_decreased)
RunUp ==
    /\ pc = "runUp"
    /\ \E outcome \in SolveIvp(p, memo) :
        LET attr == Keys[idx]
            ic == InitialConditionsRaises(p, AgeStart)
            r == run_model_SA(ic, outcome)
        IN  /\ hist' = Started(hist, attr, "up", ic, outcome)
            /\ IF r.exc # "none"
               THEN /\ result' = Raise(r.exc)
                    /\ pc' = "done"
                    /\ UNCHANGED <<memo, idx, p, relative_change_increase>>
               ELSE IF r.ret.none
               THEN /\ memo' = Remember(p, r.ret)
                    /\ idx' = idx + 1
                    /\ pc' = "loop"
                    /\ UNCHANGED <<result, p, relative_change_increase>>
               ELSE /\ memo' = Remember(p, r.ret)
                    /\ relative_change_increase' =
                           RelativeChangeOf(Output(r.ret, args.var_int), original_output)
                    /\ IF args.perturbation_factor = Zero
                       THEN /\ result' = Raise("ZeroDivisionError")
                            /\ pc' = "done"
                            /\ UNCHANGED p
                       ELSE /\ p' = SetAttr(p, attr,
                                      Decreased(original_value, args.perturbation_factor))
                            /\ pc' = "runDown"
                            /\ UNCHANGED result
                    /\ UNCHANGED idx
    /\ p0' = Baseline(p', shared)
    /\ UNCHANGED <<call, args, shared, fIdx, original_value, original_output,
                   relative_changes>>
    /\ UNCHANGED <<plot, ode>>

\* sol_decreased = run_model_SA(p, ...); if it is None: continue;
\* relative_change_decrease = ...; relative_changes.append({...});
\* setattr(p, attr, original_value)
RunDown ==
    /\ pc = "runDown"
    /\ \E outcome \in SolveIvp(p, memo) :
        LET attr == Keys[idx]
            ic == InitialConditionsRaises(p, AgeStart)
            r == run_model_SA(ic, outcome)
        IN  /\ hist' = Started(hist, attr, "down", ic, outcome)
            /\ IF r.exc # "none"
               THEN /\ result' = Raise(r.exc)
                    /\ pc' = "done"
                    /\ UNCHANGED <<memo, idx, p, relative_changes>>
               ELSE IF r.ret.none
               THEN /\ memo' = Remember(p, r.ret)
                    /\ idx' = idx + 1
                    /\ pc' = "loop"
                    /\ UNCHANGED <<result, p, relative_changes>>
               ELSE /\ memo' = Remember(p, r.ret)
                    /\ relative_changes' = Append(relative_changes,
                           Row(attr, MeanRelativeChange(relative_change_increase,
                               RelativeChangeOf(Output(r.ret, args.var_int),
                                                original_output))))
                    /\ p' = SetAttr(p, attr, original_value)
                    /\ idx' = idx + 1
                    /\ pc' = "loop"
                    /\ UNCHANGED result
    /\ p0' = Baseline(p', shared)
    /\ UNCHANGED <<call, args, shared, fIdx, original_value, original_output,
                   relative_change_increase>>
    /\ UNCHANGED <<plot, ode>>

\* df_relative_changes = pd.DataFrame(relative_changes);
\* return df_relative_changes.sort_values(by="Relative Change", ascending=False)
\* A DataFrame built from an empty list has no column to sort by: KeyError.
SortReturn ==
    /\ pc = "sort"
    /\ result' = IF relative_changes = <<>>
                 THEN Raise("KeyError")
                 ELSE Table(sort_values(relative_changes))
    /\ pc' = "done"
    /\ UNCHANGED <<call, args, p0, p, shared, idx, fIdx, original_value, original_output,
                   relative_change_increase, relative_changes, memo, hist>>
    /\ UNCHANGED <<plot, ode>>

(* ------------------------------------------------------------------ *)
(* one_at_a_time_SA.py: perturb_parameters_and_plot                    *)
(* ------------------------------------------------------------------ *)

\* The plotting sweep keeps no result of a run: the curves go to the figure,
\* which is outside the model, so the outcomes of its runs are not remembered.

\* sex, apoe4_status, case_name = case; p = param.Parameters(sex, apoe4_status)
CallOAT ==
    /\ pc = "idle"
    /\ \E case \in Cases :
        /\ call' = "perturb_parameters_and_plot"
        /\ args' = [NoArgs EXCEPT !.Sex = case[1], !.APOE4_status = case[2]]
        /\ p0' = ParametersFields(case[1], case[2], One)
        /\ p' = p0'
    /\ shared' = TRUE
    /\ idx' = 1
    /\ pc' = "oatParam"
    /\ UNCHANGED <<fIdx, original_value, original_output,
                   relative_change_increase, relative_changes, result, memo, hist>>
    /\ UNCHANGED <<plot, ode>>

\* the for loop over p.__dict__.keys() is exhausted: the figure is saved
OATExit ==
    /\ pc = "oatParam"
    /\ idx > Len(Keys)
    /\ result' = Plotted
    /\ pc' = "done"
    /\ UNCHANGED <<call, args, p0, p, shared, idx, fIdx, original_value, original_output,
                   relative_change_increase, relative_changes, memo, hist>>
    /\ UNCHANGED <<plot, ode>>

\* for param_index, parameter_name in enumerate(p.__dict__.keys()):
\*     original_value = getattr(p, parameter_name)
OATParam ==
    /\ pc = "oatParam"
    /\ idx <= Len(Keys)
    /\ original_value' = p[Keys[idx]]
    /\ fIdx' = 1
    /\ pc' = "oatSet"
    /\ UNCHANGED <<call, args, p0, p, shared, idx, original_output,
                   relative_change_increase, relative_changes, result, memo, hist>>
    /\ UNCHANGED <<plot, ode>>

\* p = param.Parameters(sex, apoe4_status)
\* setattr(p, parameter_name, original_value * perturbation_factor)
OATSet ==
    /\ pc = "oatSet"
    /\ p' = SetAttr(Fresh, Keys[idx], RMul(original_value, OATFactors[fIdx]))
    /\ shared' = FALSE
    /\ hist' = [hist EXCEPT !.set = @ \cup {Keys[idx]}]
    /\ pc' = "oatRun"
    /\ UNCHANGED <<call, args, p0, idx, fIdx, original_value, original_output,
                   relative_change_increase, relative_changes, result, memo>>
    /\ UNCHANGED <<plot, ode>>

\* sol = run_model_SA(p, ...); if sol is not None: plot the three biomarkers
OATRun ==
    /\ pc = "oatRun"
    /\ \E outcome \in SolveIvp(p, memo) :
        LET ic == InitialConditionsRaises(p, AgeStart)
            r == run_model_SA(ic, outcome)
        IN  /\ hist' = [hist EXCEPT !.runs = IF ic = "none" THEN @ + 1 ELSE @,
                                    !.ic = IF ic = "none" THEN @ ELSE ic]
            /\ IF r.exc # "none"
               THEN /\ result' = Raise(r.exc)
                    /\ pc' = "done"
                    /\ UNCHANGED <<idx, fIdx>>
               ELSE /\ UNCHANGED result
                    /\ IF fIdx < Len(OATFactors)
                       THEN /\ fIdx' = fIdx + 1
                            /\ pc' = "oatSet"
                            /\ UNCHANGED idx
                       ELSE /\ idx' = idx + 1
                            /\ pc' = "oatParam"
                            /\ UNCHANGED fIdx
    /\ UNCHANGED <<call, args, p0, p, shared, original_value, original_output,
                   relative_change_increase, relative_changes, memo>>
    /\ UNCHANGED <<plot, ode>>

Next ==
    \/ CallParameters
    \/ CallRelativeChange
    \/ RunBaseline
    \/ LoopExit
    \/ LoopSkip
    \/ PerturbUp
    \/ RunUp
    \/ RunDown
    \/ SortReturn
    \/ CallOAT
    \/ OATExit
    \/ OATParam
    \/ OATSet
    \/ OATRun

Spec == Init /\ [][Next]_vars

(* ------------------------------------------------------------------ *)
(* One evaluation of the disease model: construct a ParameterSet as a  *)
(* sweep does, solve the initial state, let the integrator pick the    *)
(* state it asks about, evaluate the right-hand side                   *)
(* ------------------------------------------------------------------ *)

\* Number of attributes the evaluations perturb.
NumPerturbed == 3

\* The attributes perturbed, among the non-categorical ones of p.__dict__.
PerturbedKeys ==
    SubSeq(<<"delta_APdp", "lambda_ABmo", "K_Fi", "kappa_ABooABpo", "d_MantiABpo">>,
           1, NumPerturbed)

\* perturbation_factor, above 1 as the scripts' 1.1 is.
OdeFactor == I(2)

\* The ages InitialConditions and the integrator start from: the scripts' 30
\* years and another.
StartAges == {AgeStart, AgeStart + 10}

\* The ParameterSets a sweep hands to run_model_SA: the constructed one, and
\* the ones with one attribute multiplied or divided by the factor.
SweepSets(Sex, APOE4_status) ==
    LET q == Parameters(Sex, APOE4_status, One)
    IN  {q} \cup {[q EXCEPT ![PerturbedKeys[i]] = RMul(q[PerturbedKeys[i]], OdeFactor)] :
                     i \in 1..Len(PerturbedKeys)}
            \cup {[q EXCEPT ![PerturbedKeys[i]] = RDiv(q[PerturbedKeys[i]], OdeFactor)] :
                     i \in 1..Len(PerturbedKeys)}

\* The values of xi a ParameterSet is constructed with: the default 1 the
\* scripts use, and another of the documented range 0 < xi <= 1.
XiValues == {Q(1, 2), One}

\* param.Parameters(Sex, APOE4_status, xi), no attribute set since.
Constructed(Sex, APOE4_status) ==
    {Parameters(Sex, APOE4_status, xi) : xi \in XiValues}

\* The entries of the state the integrator moves in the model, and what it
\* multiplies them by.
MovedIdx == {6, 8, 10, 16}
MoveScales == {Zero, Q(1, 2)}

SweepIdle ==
    /\ pc = "idle"
    /\ call = "none"
    /\ args = NoArgs
    /\ p0 = NullP
    /\ p = NullP
    /\ shared = FALSE
    /\ idx = 0
    /\ fIdx = 0
    /\ original_value = Zero
    /\ original_output = Zero
    /\ relative_change_increase = NaN
    /\ relative_changes = <<>>
    /\ result = NoResult
    /\ memo = <<>>
    /\ hist = NoHist

InitOde ==
    /\ SweepIdle
    /\ plot = NoPlot
    /\ \E c \in Cases, age \in StartAges :
         \E q \in SweepSets(c[1], c[2]) \cup Constructed(c[1], c[2]) :
           ode = [pc |-> "constructed", p |-> q, age |-> age, t |-> age * 365,
                  y |-> <<>>, dydt |-> <<>>]

\* y0 = InitialConditions(p, AgeStart)
SolveInitialConditions ==
    /\ ode.pc = "constructed"
    /\ ode' = IF InitialConditionsError(ode.p, ode.age) # "none"
              THEN [ode EXCEPT !.pc = "raised"]
              ELSE [ode EXCEPT !.pc = "solved", !.y = InitialConditions(ode.p, ode.age)]
    /\ UNCHANGED <<sweepVars, plot>>

\* solve_ivp moves on: the state and the time it asks the right-hand side about
\* are its own.
IntegratorMoves ==
    /\ ode.pc = "solved"
    /\ \E i \in MovedIdx, c \in MoveScales :
         ode' = [ode EXCEPT !.pc = "moved",
                            !.t = ode.t + 3650,
                            !.y = [ode.y EXCEPT ![i] = NpMul(Num(c), ode.y[i])]]
    /\ UNCHANGED <<sweepVars, plot>>

\* dydt = ODEsystem_SA(t, y, p)
Evaluate ==
    /\ ode.pc \in {"solved", "moved"}
    /\ ode' = [ode EXCEPT !.pc = "evaluated",
                          !.dydt = ODEsystem_SA(ode.t, ode.y, ode.p)]
    /\ UNCHANGED <<sweepVars, plot>>

NextOde ==
    \/ SolveInitialConditions
    \/ IntegratorMoves
    \/ Evaluate

SpecOde == InitOde /\ [][NextOde]_vars

(* ------------------------------------------------------------------ *)
(* mean_relative_change.py: plot_relative_change                       *)
(* ------------------------------------------------------------------ *)

\* Number of scenarios in the cases list (the script has 4).
NumCases == 2

CaseIds == 1..NumCases

\* The keys of all_results.
BiomarkerNames == {"AB", "N", "tau"}

\* Parameter names of the tables, in the order sorted() gives them.
PlotNames == <<"N_0", "d_ABi">>

\* Scores a table can hold.
PlotScores == {Num(I(1)), Num(I(5)), Num(I(10)), NaN}

\* No row for the name.
Absent == [k |-> "absent", v |-> Zero]

HasScore(r) == r.RelativeChange # Absent

\* The table relative_change returns for the scores f (Absent: no row).  The
\* only table without rows it returns is the pd.DataFrame() of a failed
\* baseline run, which has no columns.
TableOf(f) ==
    sort_values(SelectSeq([i \in 1..Len(PlotNames) |->
                              Row(PlotNames[i], f[PlotNames[i]])], HasScore))

PlotTables ==
    {TableOf(f) : f \in [{PlotNames[i] : i \in 1..Len(PlotNames)}
                             -> PlotScores \cup {Absent}]}

\* all_params: the union of df['Parameter'] over the tables.
AllParams(data) == UNION {Names(data[c]) : c \in DOMAIN data}

\* data[title].set_index('Parameter')['Relative Change'] aligned on the index
\* of df: nan where the table has no row for the name.
Aligned(table, name) ==
    IF \E i \in 1..Len(table) : table[i].Parameter = name
    THEN table[CHOOSE i \in 1..Len(table) : table[i].Parameter = name].RelativeChange
    ELSE NaN

\* if biomarker == 'N': df = df[df.index != 'N_0']
DropN0(biomarker, names) == IF biomarker = "N" THEN names \ {"N_0"} ELSE names

\* max() of pandas: nan values are skipped, and the result is nan when nothing
\* is left.
MaxSkipNa(values) ==
    LET nums == {x \in values : x.k # "nan"}
    IN  IF nums = {} THEN NaN
        ELSE CHOOSE x \in nums : \A y \in nums : ~NpLt(x, y)

\* IEEE comparison x >= y.
NpGe(x, y) == x.k # "nan" /\ y.k # "nan" /\ ~NpLt(x, y)

\* The row filter with > in place of >=.
KeepRowStrict(rowMax, threshold) == NpLt(threshold, rowMax)

\* df.max(axis=1) >= threshold
KeepRow(rowMax, threshold) == NpGe(rowMax, threshold)

\* fillna(0)
FillNa(x) == IF x.k = "nan" THEN Num(Zero) ELSE x

RECURSIVE SumOver(_, _)
SumOver(f, S) ==
    IF S = {} THEN Num(Zero)
    ELSE LET c == CHOOSE c \in S : TRUE
         IN  NpAdd(f[c], SumOver(f, S \ {c}))

\* df.mean(axis=1)
MeanOver(f) == NpScale(Q(1, Cardinality(DOMAIN f)), SumOver(f, DOMAIN f))

\* What plot_relative_change(biomarker, filename) displays for the tables data.
\* df['Parameter'] raises KeyError on a table without columns.
plot_relative_change(biomarker, data) ==
    IF \E c \in DOMAIN data : data[c] = <<>> THEN Raise("KeyError")
    ELSE
    LET index == DropN0(biomarker, AllParams(data))
        df == [n \in index |-> [c \in DOMAIN data |-> Aligned(data[c], n)]]
        RowMax(n) == MaxSkipNa({df[n][c] : c \in DOMAIN data})
        highest_relative_change == MaxSkipNa({RowMax(n) : n \in index})
        threshold == NpScale(Q(1, 5), highest_relative_change)
        Kept(n) == n \in index /\ KeepRow(RowMax(n), threshold)
        filled == [n \in index |-> [c \in DOMAIN data |-> FillNa(df[n][c])]]
        rows == [i \in 1..Len(PlotNames) |->
                    [Parameter |-> PlotNames[i],
                     RelativeChange |-> IF PlotNames[i] \in index
                                        THEN MeanOver(filled[PlotNames[i]])
                                        ELSE NaN]]
        IsKept(r) == Kept(r.Parameter)
        sorted == SortDesc(SelectSeq(rows, IsKept))
    IN  [kind |-> IF sorted = <<>> THEN "skipped" ELSE "plotted",
         exc |-> "none",
         rows |-> [i \in 1..Len(sorted) |->
                      [Parameter |-> sorted[i].Parameter,
                       Bars |-> filled[sorted[i].Parameter]]]]

\* all_results[biomarker] holds one table per case.
InitPlot ==
    /\ pc = "idle"
    /\ call = "none"
    /\ args = NoArgs
    /\ p0 = NullP
    /\ p = NullP
    /\ shared = FALSE
    /\ idx = 0
    /\ fIdx = 0
    /\ original_value = Zero
    /\ original_output = Zero
    /\ relative_change_increase = NaN
    /\ relative_changes = <<>>
    /\ result = NoResult
    /\ memo = <<>>
    /\ hist = NoHist
    /\ ode = NoOde
    /\ \E biomarker \in BiomarkerNames, data \in [CaseIds -> PlotTables] :
           plot = [pc |-> "called", biomarker |-> biomarker, data |-> data,
                   shown |-> NoResult]

PlotRelativeChange ==
    /\ plot.pc = "called"
    /\ plot' = [plot EXCEPT !.pc = "done",
                            !.shown = plot_relative_change(plot.biomarker, plot.data)]
    /\ UNCHANGED <<sweepVars, ode>>

NextPlot == PlotRelativeChange

SpecPlot == InitPlot /\ [][NextPlot]_vars

(* ------------------------------------------------------------------ *)
(* Properties                                                          *)
(* ------------------------------------------------------------------ *)

\* The keys a sweep is meant to perturb.
Swept == KeySet \ Categorical

InSweep == call = "relative_change"
SweepDone == InSweep /\ pc = "done"

\* C1: in a sweep whose baseline run succeeded, whatever subset of the
\* perturbed integrations fails, the returned table has a row for a key
\* exactly when solve_ivp succeeded on both its up run and its down run; and
\* unless InitialConditions or the division by the factor raised, every key
\* was evaluated: a failed integration stops no later key.
ThmC1 ==
    (SweepDone /\ hist.baseline = "ok") =>
        /\ result.kind = "table" => Names(result.rows) = BothOK
        /\ (hist.ic = "none" /\ result.exc # "ZeroDivisionError")
               => hist.visited = Swept

\* A table was returned although the first key's up run failed and the second
\* key's down run failed; the third key has its row.
WitC1 ==
    /\ SweepDone
    /\ result.kind = "table"
    /\ hist.visited = Swept
    /\ hist.up[Keys[3]] = 0
    /\ hist.up[Keys[4]] # 0 /\ hist.down[Keys[4]] = 0
    /\ Keys[5] \in Names(result.rows)

\* C2: an exception raised by InitialConditions for a perturbed ParameterSet
\* is caught at that evaluation, so it never becomes the outcome of the sweep.
CexC2 == (InSweep /\ hist.ic # "none") => result.exc # hist.ic

\* C3: when the baseline run fails, the call raises and no perturbed run was
\* made.
CexC3 ==
    (SweepDone /\ hist.baseline \in {"failed", "raised"}) =>
        (result.kind = "raised" /\ hist.runs = 0)

\* C4: while a perturbed integration runs, the ParameterSet in use equals a
\* newly constructed one in every attribute but the perturbed one, which holds
\* original * factor (up run) or original / factor (down run) and, for a
\* factor other than 1, differs from the original; the object bound to p
\* before the loop keeps its constructed values.  The plotting sweep's runs use
\* a new object with the one attribute set to original * factor.
ThmC4 ==
    /\ (call \in {"relative_change", "perturb_parameters_and_plot"}
            /\ pc \in {"loop", "runUp", "runDown", "sort", "oatParam", "oatSet",
                       "oatRun"})
           => p0 = Fresh
    /\ pc \in {"runUp", "runDown"} =>
           LET attr == Keys[idx]
               f == args.perturbation_factor
           IN  /\ \A k \in DOMAIN p \ {attr} : p[k] = Fresh[k]
               /\ p[attr] = IF pc = "runUp" THEN RMul(Fresh[attr], f)
                                            ELSE RDiv(Fresh[attr], f)
               /\ f # One => p[attr] # Fresh[attr]
    /\ pc = "oatRun" =>
           /\ \A k \in DOMAIN p \ {Keys[idx]} : p[k] = Fresh[k]
           /\ p[Keys[idx]] = RMul(Fresh[Keys[idx]], OATFactors[fIdx])

\* The down run of lambda_ABmo, which was constructed as a copy of lambda_ABi,
\* after the sweep skipped lambda_ABi on a failed up run.
WitC4 ==
    /\ InSweep
    /\ pc = "runDown"
    /\ Keys[idx] = "lambda_ABmo"
    /\ args.perturbation_factor = Q(11, 10)
    /\ hist.up["lambda_ABi"] = 0
    /\ p.lambda_ABi = Fresh.lambda_ABi
    /\ p.lambda_ABmo # p.lambda_ABi

\* The value of the chosen biomarker row at the final sampled age of
\* trajectory j.
FinalOutput(j) == Traj(j)[args.var_int][NumSamples]

Score(i) == result.rows[i].RelativeChange

\* C5: with a nonzero baseline value, the score of every row of the table is
\* 100 * (|up - base| / |base| + |down - base| / |base|) / 2, where base, up
\* and down are the values of the chosen biomarker at the final sampled age of
\* the baseline, up and down trajectories; every score is >= 0.
ThmC5 ==
    (SweepDone /\ hist.baseline = "ok" /\ result.kind = "table"
         /\ FinalOutput(hist.base) # Zero) =>
        \A i \in 1..Len(result.rows) :
            LET k == result.rows[i].Parameter
                base == FinalOutput(hist.base)
                up == FinalOutput(hist.up[k])
                down == FinalOutput(hist.down[k])
                relUp == RDiv(RAbs(RSub(up, base)), RAbs(base))
                relDown == RDiv(RAbs(RSub(down, base)), RAbs(base))
            IN  /\ Score(i) = Num(RDiv(RMul(I(100), RAdd(relUp, relDown)), I(2)))
                /\ Score(i).k = "num" /\ RLe(Zero, Score(i).v)

\* A row whose up and down runs gave different trajectories, the up value below
\* the baseline value, with a positive score.
WitC5 ==
    /\ SweepDone /\ hist.baseline = "ok" /\ result.kind = "table"
    /\ FinalOutput(hist.base) # Zero
    /\ \E i \in 1..Len(result.rows) :
           /\ hist.up[result.rows[i].Parameter] # hist.down[result.rows[i].Parameter]
           /\ RLt(FinalOutput(hist.up[result.rows[i].Parameter]),
                  FinalOutput(hist.base))
           /\ RLt(Zero, Score(i).v)

ThmC7 ==
    (SweepDone /\ result.kind = "table") =>
        \A i, j \in 1..Len(result.rows) :
            i < j => /\ ~NpLt(Score(i), Score(j))
                     /\ Score(i).k = "nan" => Score(j).k = "nan"

\* A table of three rows that the sort reordered, the first score greater than
\* the last.
WitC7 ==
    /\ SweepDone /\ result.kind = "table"
    /\ Len(result.rows) >= 3
    /\ result.rows # relative_changes
    /\ NpLt(Score(Len(result.rows)), Score(1))

\* C8: the names in a sweep's table are pairwise distinct and are keys other
\* than S and AP, so the table has at most as many rows as there are such
\* keys; and S and AP are never given to setattr.
CexC8 ==
    /\ (SweepDone /\ result.kind = "table") =>
           /\ Names(result.rows) \subseteq Swept
           /\ Cardinality(Names(result.rows)) = Len(result.rows)
           /\ Len(result.rows) <= NumFields
    /\ hist.set \cap Categorical = {}

\* C9: constructing a ParameterSet with a sex or a genotype flag outside
\* {0, 1}, or with xi outside (0, 1], raises InvalidParameter and yields no
\* object.
CexC9 ==
    (call = "Parameters" /\ pc = "done"
         /\ (\/ args.Sex \notin {0, 1}
             \/ args.APOE4_status \notin {0, 1}
             \/ ~(RLt(Zero, args.xi) /\ RLe(args.xi, One)))) =>
        (result = Raise("InvalidParameter") /\ p0 = NullP)

\* C10: a sweep called with a factor <= 0 raises InvalidParameter before any
\* perturbed integration is run, and returns no table.
CexC10 ==
    (SweepDone /\ RLe(args.perturbation_factor, Zero)) =>
        (result = Raise("InvalidParameter") /\ hist.runs = 0)

CexC20 ==
    (SweepDone /\ hist.baseline = "ok" /\ hist.ic = "none"
         /\ result.exc # "ZeroDivisionError") =>
        (result.kind = "table" /\ Names(result.rows) = BothOK)

\* The names displayed by plot_relative_change.
Displayed == {plot.shown.rows[i].Parameter : i \in 1..Len(plot.shown.rows)}

PlotDone == plot.pc = "done"

\* The score of name n in scenario c, a missing row counting as 0.
ScoreOrZero(c, n) ==
    LET x == Aligned(plot.data[c], n)
    IN  IF x.k = "nan" /\ n \notin Names(plot.data[c]) THEN Num(Zero) ELSE x

NoNaNScore ==
    \A c \in CaseIds : \A i \in 1..Len(plot.data[c]) :
        plot.data[c][i].RelativeChange.k # "nan"

InitialConditionsDone == ode.pc \in {"solved", "raised"}

\* Psi and D of the ParameterSet under evaluation, from the oligomer value
\* InitialConditions computes for it (y0[12] = 1e-4 in model units, y0[14] = 0).
PsiOf(q, age) ==
    LET q1 == QuadABmo(q, age)
        q2 == QuadABoo(q, Root(q1[1], q1[2], q1[3]))
    IN  PlaquePsi(q, Root(q2[1], q2[2], q2[3]))
DOf(q) == PlaqueD(q, Q(1, 10), Zero)

\* C11: when D <= Psi the call raises instead of returning a state vector
\* whose plaque entry is negative or not finite.
CexC11 ==
    (InitialConditionsDone /\ RLe(DOf(ode.p), PsiOf(ode.p, ode.age))) =>
        /\ ode.pc = "raised"
        /\ ode.y = <<>>

\* C12: every entry of the initial state returned for a ParameterSet of a
\* sweep (one attribute multiplied or divided by a factor above 1) is >= 0.
CexC12 ==
    ode.pc = "solved" => \A i \in StateIdx : NpGe(ode.y[i], Num(Zero))

\* The quadratics InitialConditions solved and the entries it stored their
\* roots in.
Solved ==
    {<<QuadABmo(ode.p, ode.age), 1>>,
     <<QuadABoo(ode.p, ode.y[1].v), 2>>,
     <<QuadTau(ode.p), 5>>}

NotFinite(v) == {i \in StateIdx : v[i].k # "num"}

\* C14: evaluated on a state whose neuron density y[8] is zero, the function
\* does not return a derivative with nan or infinite entries.
CexC14 ==
    (ode.pc = "evaluated" /\ ode.y[8] = Num(Zero)) => NotFinite(ode.dydt) = {}

\* The equations that lose mass with the neurons.
LossIdx == {0, 4, 5, 6}

\* C15: for a state with y[8] # 0, the entry returned at index 8 is the neuron
\* derivative of that state, and each of the entries 0, 4, 5 and 6 is its
\* equation without the loss, minus y[i] / y[8] * |dydt[8]| for the dydt[8]
\* returned by the same call.
ThmC15 ==
    (ode.pc = "evaluated" /\ ode.y[8] # Num(Zero)) =>
        /\ ode.dydt[8] = NeuronDerivative(ode.y, ode.p)
        /\ \A i \in LossIdx :
               ode.dydt[i] =
                   NpAdd(Kinetics(i, ode.t, ode.y, ode.p),
                         NpNeg(NpMul(NpQuot(ode.y[i], ode.y[8]), NpAbs(ode.dydt[8]))))

\* An evaluation at a state the integrator moved to, with half the neurons of
\* the initial state, where neurons are being lost and the loss terms count.
WitC15 ==
    /\ ode.pc = "evaluated"
    /\ ode.y[8] = Num(RMul(Q(1, 2), ode.p.N_0))
    /\ NpLt(ode.dydt[8], Num(Zero))
    /\ \A i \in LossIdx : ode.dydt[i] # Kinetics(i, ode.t, ode.y, ode.p)

\* The entries of y0 that InitialConditions derives as equilibria.
EquilibriumIdx == {0, 1, 2, 3, 4, 5, 6, 15, 16, 17, 18}

\* What the rounding of the square root leaves of the quadratic a*x*x + b*x + c
\* at the root taken: |b*b - 4*a*c - sqrt*sqrt| / (4*a).
SqrtSlack(q) ==
    LET disc == Discriminant(q[1], q[2], q[3])
    IN  RDiv(RAbs(RSub(disc, Sq(MathSqrt(disc, q[2])))), RMul(I(4), q[1]))

\* The tolerance granted to entry i of the derivative at y0: the loss of
\* neurons, which no initial value accounts for, and for the roots of the
\* quadratics the rounding of their square roots.
Tolerance(i) ==
    LET loss == IF i \in LossIdx THEN NpAbs(Loss(i, ode.y, ode.p)).v
                ELSE IF i = 1 THEN NpAbs(Loss(0, ode.y, ode.p)).v
                ELSE Zero
        slack == IF i = 1 THEN SqrtSlack(QuadABmo(ode.p, ode.age))
                 ELSE IF i = 2 THEN SqrtSlack(QuadABoo(ode.p, ode.y[1].v))
                 ELSE IF i = 5 THEN SqrtSlack(QuadTau(ode.p))
                 ELSE Zero
    IN  RAdd(loss, slack)

\* The right-hand side was evaluated on y0 at the start age.
EvaluatedAtStart ==
    /\ ode.pc = "evaluated"
    /\ ode.t = ode.age * 365
    /\ ode.y = InitialConditions(ode.p, ode.age)

\* The ParameterSet is as __init__ made it: no attribute was set since.
AsConstructed == ode.p \in Constructed(Floor(ode.p.S), Floor(ode.p.AP))

WithinTolerance(i) ==
    /\ ode.dydt[i].k = "num"
    /\ RLe(RAbs(ode.dydt[i].v), Tolerance(i))

DerivedKeys == DOMAIN ode.p \ {"S", "AP"}

\* C18: every derived constant of a ParameterSet constructed from valid inputs
\* is strictly positive.
CexC18 ==
    (ode.pc # "idle" /\ AsConstructed) =>
        \A k \in DerivedKeys : RLt(Zero, ode.p[k])

\* C18, as the code has it: every derived constant of a ParameterSet
\* constructed from valid inputs is strictly positive but delta_APdp, the
\* relative change of the plaque degradation under APOE4, which is negative
\* and above -1, so that the factor 1 + AP * delta_APdp is still positive.
ThmC18 ==
    (ode.pc # "idle" /\ AsConstructed) =>
        /\ \A k \in DerivedKeys \ {"delta_APdp"} : RLt(Zero, ode.p[k])
        /\ RLt(ode.p.delta_APdp, Zero)
        /\ RLt(Zero, ApoeFold(ode.p, ode.p.delta_APdp))

\* A ParameterSet constructed for a man with the allele and xi = 1/2, on which
\* the right-hand side has been evaluated.
WitC18 ==
    /\ ode.pc = "evaluated"
    /\ ode.p = Parameters(1, 1, Q(1, 2))
    /\ ode.p.kappa_ABooM = Q(1, 30)
    /\ ode.p.delta_APdp = Q(-3, 4)

(* ------------------------------------------------------------------ *)
(* Properties of the scaling factor and of the microglia               *)
(* ------------------------------------------------------------------ *)

\* The attributes xi reaches through TotalMaxActivRateM.
ActivationKeys == {"kappa_FoM", "kappa_ABooM"}

\* C21: xi affects only the two microglia activation rates.  A ParameterSet
\* built with xi has kappa_FoM = (2/3) * 0.20 * xi and
\* kappa_ABooM = (1/3) * 0.20 * xi, which add up to 0.20 * xi, and the set built
\* for the same sex and genotype with another xi differs from it in exactly
\* these two attributes.
ThmC21 ==
    ode.pc # "idle" =>
        \A xi \in XiValues :
            ode.p = Parameters(Floor(ode.p.S), Floor(ode.p.AP), xi) =>
                /\ ode.p.kappa_FoM = RMul(RMul(Q(2, 3), Q(1, 5)), xi)
                /\ ode.p.kappa_ABooM = RMul(RMul(Q(1, 3), Q(1, 5)), xi)
                /\ RAdd(ode.p.kappa_FoM, ode.p.kappa_ABooM) = RMul(Q(1, 5), xi)
                /\ \A other \in XiValues \ {xi} :
                     LET q == Parameters(Floor(ode.p.S), Floor(ode.p.AP), other)
                     IN  {k \in DOMAIN q : q[k] # ode.p[k]} = ActivationKeys

\* A ParameterSet built with xi = 1/2 for a woman with the allele, whose two
\* activation rates are half those of the default set.
WitC21 ==
    /\ ode.pc = "solved"
    /\ ode.p = Parameters(0, 1, Q(1, 2))
    /\ ode.p.kappa_FoM = Q(1, 15)
    /\ ode.p.kappa_ABooM = Q(1, 30)
    /\ ode.p # Parameters(0, 1, One)

\* The entries of the state that hold microglia: resting, proinflammatory
\* and anti-inflammatory.
MicrogliaIdx == {10, 11, 12}

\* beta * epsilon_Ta + epsilon_I10 is a number other than zero.
SplitDefined(y, q) ==
    LET denom == NpAdd(NpMul(Num(q.beta), epsilon_Ta(y, q)), epsilon_I10(y, q))
    IN  denom.k = "num" /\ denom.v # Zero

\* C22: the microglia are conserved.  Wherever the right-hand side has been
\* evaluated on a state whose polarization split is defined, the pro and anti
\* fractions add up to 1 and dydt[10] + dydt[11] + dydt[12] = 0; and the
\* initial state has y0[10] + y0[11] + y0[12] = M_0, the total of the sex.
ThmC22 ==
    /\ (ode.pc = "evaluated" /\ SplitDefined(ode.y, ode.p)) =>
          /\ NpAdd(ProFraction(ode.y, ode.p), AntiFraction(ode.y, ode.p)) = Num(One)
          /\ NpSum(<<ode.dydt[10], ode.dydt[11], ode.dydt[12]>>) = Num(Zero)
    /\ (ode.pc = "solved") =>
          NpSum(<<ode.y[10], ode.y[11], ode.y[12]>>) = Num(M_0(ode.p.S))

\* The right-hand side evaluated on a state the integrator took half of the
\* resting microglia from: cells are being activated, and each of the three
\* entries is a number other than zero.
WitC22 ==
    /\ ode.pc = "evaluated"
    /\ SplitDefined(ode.y, ode.p)
    /\ ode.y[10] = NpMul(Num(Q(1, 2)), InitialConditions(ode.p, ode.age)[10])
    /\ \A i \in MicrogliaIdx : ode.dydt[i].k = "num" /\ ode.dydt[i].v # Zero
    /\ ProFraction(ode.y, ode.p) # Num(Zero)
    /\ AntiFraction(ode.y, ode.p) # Num(Zero)

(* ------------------------------------------------------------------ *)
(* Properties of the order of the runs in a sweep                      *)
(* ------------------------------------------------------------------ *)

\* C23: in a sweep the baseline integration precedes every perturbed one; for
\* each key the up run precedes the down run, which is attempted only after a
\* successful up run; at most 2 * P perturbed integrations follow the baseline
\* one, P being the number of non-categorical keys; and a sweep that went past
\* its baseline run has visited every one of these keys when it ends.
CexC23 ==
    InSweep =>
        /\ (hist.runs > 0 \/ hist.visited # {}) => hist.baseline = "ok"
        /\ pc = "runDown" => (hist.up[Keys[idx]] # 0 /\ hist.down[Keys[idx]] = 0)
        /\ \A k \in KeySet : hist.down[k] # 0 => hist.up[k] # 0
        /\ hist.runs <= 2 * Cardinality(Swept)
        /\ hist.visited \subseteq Swept
        /\ (pc = "done" /\ hist.baseline = "ok") => hist.visited = Swept

====
